---- MODULE Spec2Model ----
(***************************************************************************)
(* Model of generate_snake_workflow.py: the configuration loader, the      *)
(* workflow renderer, the README composer and the file writes of one or    *)
(* more runs of the tool against the same working directory.               *)
(*                                                                         *)
(* Text is a sequence of tokens.  A token is either a piece of literal     *)
(* template text, a configured value, or a single character of a file the  *)
(* tool did not write itself ("x", "\r", "\n").  "\n" is always a token of *)
(* its own, so lines, rstrip() and newline translation are computed on the *)
(* token sequence the way Python computes them on the characters.          *)
(*                                                                         *)
(* An optional mapping key is a set: {} when the key is absent, {v} when   *)
(* it is present with value v.                                             *)
(*                                                                         *)
(* Files follow POSIX semantics (the script's interpreter line is          *)
(* /usr/bin/env python3): os.rename replaces an existing destination, and  *)
(* text-mode writes do not translate "\n".                                 *)
(***************************************************************************)
EXTENDS Integers, Sequences, FiniteSets, TLC

VARIABLES
    pc,               \* position of the process inside main()
    config_file,      \* the file at config_path given to this run
    config,           \* the mapping returned by load_config
    workflow_content, \* value returned by generate_github_workflow
    workflow,         \* file .github/workflows/generate-snake.yml
    readme,           \* file at readme_path
    backup,           \* file at readme_path + ".backup"
    backup_path,      \* is the local backup_path bound (line 177)?
    new_readme,       \* local new_readme of create_workflow_files
    exit_code,        \* "none" while running, then "0", "1" or the fault
    runs,             \* number of runs of main() started so far
    readme_original,  \* README before the first run
    readme_before,    \* README when the current run started
    backup_before,    \* backup when the current run started
    workflow_before   \* workflow file when the current run started

vars == <<pc, config_file, config, workflow_content, workflow, readme, backup, backup_path,
          new_readme, exit_code, runs, readme_original, readme_before,
          backup_before, workflow_before>>

----------------------------------------------------------------------------
(* Bounds *)

MaxOutputs == 2      \* longest outputs list of the renderer's inputs
MaxReadmeLen == 2    \* longest README present before the first run
MaxRuns == 2         \* runs of main() against the same directory

----------------------------------------------------------------------------
(* Python helpers *)

\* dict.get(key, default) on an optional key
Get(opt, default) == IF opt = {} THEN default ELSE CHOOSE v \in opt : TRUE

\* truth value of dict.get(key) for a string-valued key: None and "" are falsy
Truthy(opt) == opt # {} /\ opt # {""}

\* Files
NoFile == [exists |-> FALSE, content |-> <<>>]
File(text) == [exists |-> TRUE, content |-> text]

\* Characters str.strip()/str.rstrip() remove; the template's all-blank tokens
Whitespace == {"\n", "\r", " ", "      ", "    "}

RECURSIVE rstrip(_)
rstrip(text) ==
    IF text = <<>> THEN <<>>
    ELSE IF text[Len(text)] \in Whitespace \cup {""}
         THEN rstrip(SubSeq(text, 1, Len(text) - 1))
         ELSE text

\* text.strip() == "" : every character is whitespace
strip_is_empty(text) == \A i \in 1..Len(text) : text[i] \in Whitespace \cup {""}

\* str(b).lower() for a Python bool
str_lower(b) == IF b THEN "true" ELSE "false"

\* f.read() of a file opened with open(path, 'r'): universal newlines, every
\* "\r\n" and every lone "\r" is returned as "\n"
RECURSIVE read(_)
read(text) ==
    IF text = <<>> THEN <<>>
    ELSE IF text[1] = "\r"
         THEN IF Len(text) >= 2 /\ text[2] = "\n"
              THEN <<"\n">> \o read(SubSeq(text, 3, Len(text)))
              ELSE <<"\n">> \o read(Tail(text))
         ELSE <<text[1]>> \o read(Tail(text))

\* 'dark' in path.lower(), for the paths of the model
contains_dark(path) == path \in {"b-dark.svg", "C-DARK.svg"}

----------------------------------------------------------------------------
(* generate_github_workflow *)

\* "&".join(parts) for a sequence of texts
RECURSIVE join(_, _)
join(sep, parts) ==
    IF parts = <<>> THEN <<>>
    ELSE IF Len(parts) = 1 THEN parts[1]
    ELSE parts[1] \o <<sep>> \o join(sep, Tail(parts))

\* query_params with "is not None" tests in place of the truth tests
query_params_keep_empty(output) ==
    (IF output.palette # {}
        THEN << <<"palette=", Get(output.palette, "")>> >> ELSE <<>>)
    \o (IF output.color_snake # {}
        THEN << <<"color_snake=", Get(output.color_snake, "")>> >> ELSE <<>>)
    \o (IF output.color_dots # {}
        THEN << <<"color_dots=", Get(output.color_dots, "")>> >> ELSE <<>>)

query_params(output) ==
    (IF Truthy(output.palette)
        THEN << <<"palette=", Get(output.palette, "")>> >> ELSE <<>>)
    \o (IF Truthy(output.color_snake)
        THEN << <<"color_snake=", Get(output.color_snake, "")>> >> ELSE <<>>)
    \o (IF Truthy(output.color_dots)
        THEN << <<"color_dots=", Get(output.color_dots, "")>> >> ELSE <<>>)

query_string(output) ==
    IF query_params(output) # <<>>
    THEN <<"?">> \o join("&", query_params(output))
    ELSE <<>>

\* output.get('path', f'output-{i}.svg'), i counted from 0
output_path(i, output) ==
    IF output.path = {} THEN <<"output-", ToString(i), ".svg">>
    ELSE <<Get(output.path, "")>>

\* the loop of lines 50-64 over outputs_config[k..], k counted from 1
RECURSIVE outputs_loop(_, _)
outputs_loop(outputs_config, k) ==
    IF k > Len(outputs_config) THEN <<>>
    ELSE <<"      ">> \o output_path(k - 1, outputs_config[k])
         \o query_string(outputs_config[k]) \o <<"\n">>
         \o outputs_loop(outputs_config, k + 1)

outputs_section(cfg) ==
    IF strip_is_empty(outputs_loop(cfg.outputs, 1))
    THEN <<"      ", "github-contribution-grid-snake.svg", "\n">>
    ELSE outputs_loop(cfg.outputs, 1)

schedule(cfg) == Get(cfg.automation.schedule, "0 0 1,15 * *")

auto_commit_default_off(cfg) == Get(cfg.automation.auto_commit, FALSE)

auto_commit(cfg) == Get(cfg.automation.auto_commit, TRUE)

commit_message(cfg) ==
    Get(cfg.automation.commit_message, "Update snake contributions on ${DATE}")

cron_schedule_default_off(cfg) ==
    IF Get(cfg.automation.enabled, FALSE)
    THEN <<"\n", "  schedule:", "\n",
           "    - cron: \"", schedule(cfg), "\"", "\n">>
    ELSE <<>>

cron_schedule(cfg) ==
    IF Get(cfg.automation.enabled, TRUE)
    THEN <<"\n", "  schedule:", "\n",
           "    - cron: \"", schedule(cfg), "\"", "\n">>
    ELSE <<>>

commit_step(cfg) ==
    <<"    - name: Commit changes", "\n",
      "      if: ", str_lower(auto_commit(cfg)), "\n",
      "      run: |", "\n",
      "        git config --local user.email \"action@github.com\"", "\n",
      "        git config --local user.name \"GitHub Action\"", "\n",
      "        git add .", "\n",
      "        git diff --staged --quiet || git commit -m \"",
          commit_message(cfg), "\"", "\n",
      "        git push", "\n",
      "        ", "\n",
      "      env:", "\n",
      "        GITHUB_TOKEN: ${{ secrets.GITHUB_TOKEN }}", "\n">>

\* config.get('github', {})
github_config(cfg) == Get(cfg.github, [username |-> {}])

generate_github_workflow(cfg) ==
    <<"name: Generate Snake Contributions", "\n",
      "\n",
      "on:", "\n",
      "  push:", "\n",
      "    branches: [\"main\", \"master\"]", "\n",
      "  pull_request:", "\n",
      "    branches: [\"main\", \"master\"]", "\n">>
    \o cron_schedule(cfg)
    \o <<"\n",
      "\n",
      "jobs:", "\n",
      "  generate-snake:", "\n",
      "    runs-on: ubuntu-latest", "\n",
      "    ", "\n",
      "    steps:", "\n",
      "    - name: Checkout repository", "\n",
      "      uses: actions/checkout@v4", "\n",
      "      ", "\n",
      "    - name: Generate snake contribution graphics", "\n",
      "      uses: Platane/snk@v3", "\n",
      "      with:", "\n",
      "        github_user_name: ",
          Get(github_config(cfg).username, "${github.repository_owner}"), "\n",
      "        outputs: |", "\n">>
    \o rstrip(outputs_section(cfg)) \o <<"\n">>
    \o <<"    ", "\n">>
    \o commit_step(cfg)

----------------------------------------------------------------------------
(* generate_readme_content *)

\* svg_outputs with the renderer's default type, output.get('type', 'svg')
svg_outputs_default_type(cfg) ==
    SelectSeq(cfg.outputs, LAMBDA output : Get(output.type, "svg") = "svg")

svg_outputs(cfg) == SelectSeq(cfg.outputs, LAMBDA output : output.type = {"svg"})

primary_svg(cfg) == Get(svg_outputs(cfg)[1].path, "github-snake.svg")

\* index of the first svg output whose path contains "dark", 0 when none
dark_index(cfg) ==
    LET hits == {i \in 1..Len(svg_outputs(cfg)) :
                    contains_dark(Get(svg_outputs(cfg)[i].path, ""))}
    IN IF hits = {} THEN 0 ELSE CHOOSE i \in hits : \A j \in hits : i <= j

dark_svg(cfg) == Get(svg_outputs(cfg)[dark_index(cfg)].path, "")

generate_readme_content(cfg) ==
    IF ~Get(cfg.readme_integration.enabled, FALSE) THEN <<>>
    ELSE IF svg_outputs(cfg) = <<>> THEN <<>>
    ELSE IF Get(cfg.readme_integration.tag_type, "picture") = "picture"
            /\ dark_index(cfg) # 0
    THEN <<"<picture>", "\n",
           "  <source media=\"(prefers-color-scheme: dark)\" srcset=\"",
               dark_svg(cfg), "\" />", "\n",
           "  <source media=\"(prefers-color-scheme: light)\" srcset=\"",
               primary_svg(cfg), "\" />", "\n",
           "  <img alt=\"Snake Contribution Graphics\" src=\"",
               primary_svg(cfg), "\" />", "\n",
           "</picture>">>
    ELSE <<"<img src=\"", primary_svg(cfg),
           "\" alt=\"Snake Contribution Graphics\" />">>

----------------------------------------------------------------------------
(* load_config *)

\* load_config without the required-field loop
load_config_unvalidated(file) ==
    IF file.kind = "missing" THEN [outcome |-> "1", config |-> file.doc]
    ELSE IF file.kind = "malformed" THEN [outcome |-> "1", config |-> file.doc]
    ELSE [outcome |-> "return", config |-> file.doc]

\* What load_config does with the file at config_path: the outcome and, when
\* it returns, the mapping
load_config(file) ==
    IF file.kind = "missing" THEN [outcome |-> "1", config |-> file.doc]
    ELSE IF file.kind = "malformed" THEN [outcome |-> "1", config |-> file.doc]
    ELSE IF file.doc.github = {}
         THEN [outcome |-> "ValueError", config |-> file.doc]
         ELSE [outcome |-> "return", config |-> file.doc]

----------------------------------------------------------------------------
(* create_workflow_files: the README part *)

\* a rename that keeps an existing destination
os_rename_keep(src, dst) ==
    IF dst.exists THEN [src |-> NoFile, dst |-> dst]
    ELSE [src |-> NoFile, dst |-> src]

\* os.rename(src, dst): dst is replaced when it exists
os_rename(src, dst) == [src |-> NoFile, dst |-> src]

\* compose whose last branch appends the markup instead of prepending it
compose_other_at_bottom(position, readme_content, backup_file) ==
    IF position = "top"
    THEN IF backup_file.exists
         THEN readme_content \o <<"\n", "\n">> \o read(backup_file.content)
         ELSE readme_content \o <<"\n", "\n">>
    ELSE IF backup_file.exists
         THEN read(backup_file.content) \o <<"\n", "\n">> \o readme_content
              \o <<"\n">>
         ELSE readme_content

\* lines 182-215 once backup_path is known to be bound: the text written to
\* the README.  exists(backup_path) is backup_file.exists.
compose(position, readme_content, backup_file) ==
    IF position = "top"
    THEN IF backup_file.exists
         THEN readme_content \o <<"\n", "\n">> \o read(backup_file.content)
         ELSE readme_content \o <<"\n", "\n">>
    ELSE IF position = "bottom"
    THEN IF backup_file.exists
         THEN read(backup_file.content) \o <<"\n", "\n">> \o readme_content
              \o <<"\n">>
         ELSE readme_content
    ELSE IF backup_file.exists
         THEN readme_content \o <<"\n">> \o read(backup_file.content)
         ELSE readme_content \o <<"\n">>

position_of(cfg) == Get(cfg.readme_integration.position, "top")

----------------------------------------------------------------------------
(* Inputs *)

NoOutput == [path |-> {}, type |-> {}, palette |-> {}, color_snake |-> {},
             color_dots |-> {}]
NoAutomation == [enabled |-> {}, schedule |-> {}, auto_commit |-> {},
                 commit_message |-> {}]
NoReadmeIntegration == [enabled |-> {}, tag_type |-> {}, position |-> {}]
Alice == {[username |-> {"alice"}]}
EmptyConfig == [github |-> {}, outputs |-> <<>>, automation |-> NoAutomation,
                readme_integration |-> NoReadmeIntegration]

SeqsUpTo(S, n) == UNION {[1..k -> S] : k \in 0..n}

\* Inputs of the renderer, output block
OutputSpecs ==
    [path : {{}, {"a.svg"}, {"b-dark.svg"}}, type : {{"svg"}},
     palette : {{}, {""}, {"github-dark"}},
     color_snake : {{}, {"red"}}, color_dots : {{}, {"blue"}}]

OutputConfigs ==
    [github : {Alice}, outputs : SeqsUpTo(OutputSpecs, MaxOutputs),
     automation : [enabled : {{}, {FALSE}}, schedule : {{}},
                   auto_commit : {{}}, commit_message : {{}}],
     readme_integration : {NoReadmeIntegration}]

\* Inputs of the renderer, triggers and commit step
TriggerConfigs ==
    [github : {Alice, {[username |-> {}]}},
     outputs : {<<>>, <<[NoOutput EXCEPT !.path = {"a.svg"},
                                         !.palette = {"github-dark"}]>>},
     automation : [enabled : {{}, {TRUE}, {FALSE}},
                   schedule : {{}, {"0 6 * * *"}},
                   auto_commit : {{}, {TRUE}, {FALSE}},
                   commit_message : {{}, {"snake ${DATE}"}, {"chore: snake"}}],
     readme_integration : {NoReadmeIntegration}]

\* Inputs of the runs of main()
Gif == [NoOutput EXCEPT !.path = {"c.gif"}, !.type = {"gif"}]
SvgA == [NoOutput EXCEPT !.path = {"a.svg"}, !.type = {"svg"}]
SvgDark == [NoOutput EXCEPT !.path = {"b-dark.svg"}, !.type = {"svg"},
                            !.palette = {"github-dark"}]
Untyped == [NoOutput EXCEPT !.path = {"a.svg"}]

RunOutputs == {<<>>, <<Untyped>>, <<SvgA>>, <<Gif, SvgA>>, <<SvgA, SvgDark>>}

Positions == {{}, {"top"}, {"bottom"}, {"middle"}}

\* every outputs list with every enabled flag and position, and the plain
\* tag style where a dark variant would otherwise select the picture markup
RunConfigs ==
    [github : {Alice}, outputs : RunOutputs, automation : {NoAutomation},
     readme_integration : [enabled : {{}, {TRUE}, {FALSE}}, tag_type : {{}},
                           position : Positions]]
    \cup [github : {Alice}, outputs : {<<SvgA, SvgDark>>},
          automation : {NoAutomation},
          readme_integration : [enabled : {{TRUE}}, tag_type : {{"img"}},
                                position : Positions]]

ConfigFiles ==
    {[kind |-> "missing", doc |-> EmptyConfig],
     [kind |-> "malformed", doc |-> EmptyConfig],
     [kind |-> "yaml", doc |-> [EmptyConfig EXCEPT !.outputs = <<SvgA>>,
          !.readme_integration.enabled = {TRUE}]]}
    \cup {[kind |-> "yaml", doc |-> c] : c \in RunConfigs}

ReadmeChars == {"x", "\r", "\n"}
InitialReadmes ==
    {NoFile} \cup {File(t) : t \in SeqsUpTo(ReadmeChars, MaxReadmeLen)}

----------------------------------------------------------------------------
(* The renderer applied to its inputs *)

InitRender(configs) ==
    /\ pc = "call"
    /\ config \in configs
    /\ config_file = [kind |-> "yaml", doc |-> config]
    /\ workflow_content = <<>>
    /\ workflow = NoFile /\ readme = NoFile /\ backup = NoFile
    /\ backup_path = FALSE /\ new_readme = <<>>
    /\ exit_code = "none" /\ runs = 0
    /\ readme_original = NoFile /\ readme_before = NoFile
    /\ backup_before = NoFile /\ workflow_before = NoFile

InitOutputs == InitRender(OutputConfigs)
InitTriggers == InitRender(TriggerConfigs)

call_generate_github_workflow ==
    /\ pc = "call"
    /\ workflow_content' = generate_github_workflow(config)
    /\ pc' = "returned"
    /\ UNCHANGED <<config, config_file, workflow, readme, backup, backup_path,
                   new_readme, exit_code, runs, readme_original, readme_before,
                   backup_before, workflow_before>>

NextRender == call_generate_github_workflow

SpecOutputs == InitOutputs /\ [][NextRender]_vars
SpecTriggers == InitTriggers /\ [][NextRender]_vars

----------------------------------------------------------------------------
(* Runs of main() *)

Init ==
    /\ pc = "shell"
    /\ config = EmptyConfig
    /\ config_file = [kind |-> "missing", doc |-> EmptyConfig]
    /\ workflow_content = <<>>
    /\ workflow = NoFile
    /\ readme \in InitialReadmes
    /\ backup = NoFile
    /\ backup_path = FALSE /\ new_readme = <<>>
    /\ exit_code = "none" /\ runs = 0
    /\ readme_original = readme /\ readme_before = readme
    /\ backup_before = NoFile /\ workflow_before = NoFile

\* main(), lines 229-230: load_config either ends the process or returns
main_load_config ==
    /\ pc = "shell" /\ runs < MaxRuns
    /\ \E file \in ConfigFiles :
        /\ config_file' = file
        /\ IF load_config(file).outcome = "return"
           THEN /\ config' = load_config(file).config
                /\ pc' = "create_workflow_files"
                /\ exit_code' = "none"
           ELSE /\ config' = EmptyConfig
                /\ pc' = "shell"
                /\ exit_code' = load_config(file).outcome
    /\ runs' = runs + 1
    /\ readme_before' = readme /\ backup_before' = backup
    /\ workflow_before' = workflow
    /\ workflow_content' = <<>> /\ new_readme' = <<>> /\ backup_path' = FALSE
    /\ UNCHANGED <<workflow, readme, backup, readme_original>>

\* lines 156-171: write the workflow file, then decide on the README
write_workflow ==
    /\ pc = "create_workflow_files"
    /\ workflow_content' = generate_github_workflow(config)
    /\ workflow' = File(workflow_content')
    /\ IF generate_readme_content(config) # <<>>
       THEN pc' = "backup" /\ exit_code' = exit_code
       ELSE pc' = "shell" /\ exit_code' = "0"
    /\ UNCHANGED <<config, config_file, readme, backup, backup_path,
                   new_readme, runs, readme_original, readme_before,
                   backup_before, workflow_before>>

\* lines 175-179
backup_readme ==
    /\ pc = "backup"
    /\ IF readme.exists
       THEN /\ backup_path' = TRUE
            /\ readme' = os_rename(readme, backup).src
            /\ backup' = os_rename(readme, backup).dst
       ELSE UNCHANGED <<backup_path, readme, backup>>
    /\ pc' = "compose"
    /\ UNCHANGED <<config, config_file, workflow_content, workflow, new_readme,
                   exit_code, runs, readme_original, readme_before,
                   backup_before, workflow_before>>

\* lines 181-215: every branch evaluates os.path.exists(backup_path) first,
\* which raises UnboundLocalError when line 177 was not executed
compose_readme ==
    /\ pc = "compose"
    /\ IF backup_path
       THEN /\ new_readme' = compose(position_of(config),
                                     generate_readme_content(config), backup)
            /\ pc' = "write" /\ exit_code' = exit_code
       ELSE /\ new_readme' = new_readme
            /\ pc' = "shell" /\ exit_code' = "UnboundLocalError"
    /\ UNCHANGED <<config, config_file, workflow_content, workflow, readme,
                   backup, backup_path, runs, readme_original, readme_before,
                   backup_before, workflow_before>>

\* lines 217-218, then main() returns
write_readme ==
    /\ pc = "write"
    /\ readme' = File(new_readme)
    /\ pc' = "shell" /\ exit_code' = "0"
    /\ UNCHANGED <<config, config_file, workflow_content, workflow, backup,
                   backup_path, new_readme, runs, readme_original,
                   readme_before, backup_before, workflow_before>>

Next ==
    \/ main_load_config
    \/ write_workflow
    \/ backup_readme
    \/ compose_readme
    \/ write_readme

Spec == Init /\ [][Next]_vars

----------------------------------------------------------------------------
(* Vocabulary of the properties *)

Count(text, tok) == Cardinality({i \in 1..Len(text) : text[i] = tok})

\* sub occurs in text as a contiguous run of tokens
Occurs(sub, text) ==
    \E i \in 0..(Len(text) - Len(sub)) : SubSeq(text, i + 1, i + Len(sub)) = sub

FirstIndex(text, tok) ==
    CHOOSE i \in 1..Len(text) :
        text[i] = tok /\ \A j \in 1..(i - 1) : text[j] # tok

RECURSIVE Flatten(_)
Flatten(seqs) == IF seqs = <<>> THEN <<>> ELSE Head(seqs) \o Flatten(Tail(seqs))

RunEnded == pc = "shell" /\ runs > 0
Loaded == config_file.kind = "yaml" /\ config_file.doc.github # {}

IntegrationEnabled(cfg) == cfg.readme_integration.enabled = {TRUE}
SvgCount(cfg) ==
    Cardinality({i \in 1..Len(cfg.outputs) : cfg.outputs[i].type = {"svg"}})
ProducesMarkup(cfg) == IntegrationEnabled(cfg) /\ SvgCount(cfg) >= 1
OtherPosition(cfg) ==
    cfg.readme_integration.position \notin {{}, {"top"}, {"bottom"}}

\* the lines of the rendered workflow between "outputs: |" and the blank line
\* that precedes the commit step
OutputBlock(text) ==
    SubSeq(text, FirstIndex(text, "        outputs: |") + 2,
                 FirstIndex(text, "    - name: Commit changes") - 3)

ExpectedQuery(output) ==
    LET names == <<"palette=", "color_snake=", "color_dots=">>
        values == <<output.palette, output.color_snake, output.color_dots>>
        set == SelectSeq(<<1, 2, 3>>,
                         LAMBDA k : values[k] # {} /\ values[k] # {""})
    IN Flatten([j \in 1..Len(set) |->
                   <<IF j = 1 THEN "?" ELSE "&", names[set[j]]>>
                   \o <<CHOOSE v \in values[set[j]] : TRUE>>])

ExpectedBlock(outputs) ==
    Flatten([i \in 1..Len(outputs) |->
        <<"      ">>
        \o (IF outputs[i].path = {} THEN <<"output-", ToString(i - 1), ".svg">>
            ELSE <<CHOOSE v \in outputs[i].path : TRUE>>)
        \o ExpectedQuery(outputs[i]) \o <<"\n">>])

Branches == "    branches: [\"main\", \"master\"]"

----------------------------------------------------------------------------
(* Properties *)

\* C1: with integration enabled, exactly one svg output, position "top" and a
\* README with content C present, the README after the run equals the
\* generated markup, two newlines, then C.
C1_TopMergeKeepsContent ==
    (RunEnded /\ Loaded /\ IntegrationEnabled(config) /\ SvgCount(config) = 1
        /\ config.readme_integration.position = {"top"} /\ readme_before.exists)
    => readme = File(generate_readme_content(config) \o <<"\n", "\n">>
                     \o readme_before.content)

\* C2: in every run that produces markup while a README exists, from the
\* rename onwards and at the end of the run the backup holds exactly the
\* README the run started with, and the README has not been written while
\* the rename is still the last file operation.
C2_BackupHoldsPriorReadme ==
    (runs > 0 /\ Loaded /\ ProducesMarkup(config) /\ readme_before.exists)
    => /\ pc \in {"compose", "write"} => backup = readme_before /\ ~readme.exists
       /\ RunEnded => backup = readme_before /\ readme.exists

C2_SecondBackupReplacesFirst ==
    /\ RunEnded /\ runs = 2 /\ Loaded /\ ProducesMarkup(config)
    /\ backup_before.exists /\ backup_before = readme_original
    /\ readme_before # readme_original
    /\ backup = readme_before /\ backup # backup_before

\* C3: when loading the configuration fails the run ends at once, with exit
\* code 1 for a missing or malformed file and with the ValueError for the
\* absent github key, and the three files are as they were before the run.
C3_LoadFailureWritesNothing ==
    (runs > 0 /\ ~Loaded)
    => /\ pc = "shell"
       /\ config_file.kind \in {"missing", "malformed"} => exit_code = "1"
       /\ config_file.kind = "yaml" => exit_code = "ValueError"
       /\ workflow = workflow_before
       /\ readme = readme_before
       /\ backup = backup_before

C3_FailedRunOverExistingFiles ==
    /\ RunEnded /\ runs = 2
    /\ config_file.kind = "yaml" /\ config_file.doc.github = {}
    /\ IntegrationEnabled(config_file.doc) /\ SvgCount(config_file.doc) = 1
    /\ exit_code = "ValueError"
    /\ workflow.exists /\ readme.exists /\ backup.exists

\* C4: when integration is disabled or absent, or no output has type svg,
\* the run writes the workflow file and ends with exit code 0 without
\* touching the README or the backup at any point.
C4_ReadmeUntouched ==
    (runs > 0 /\ Loaded /\ ~ProducesMarkup(config))
    => /\ readme = readme_before
       /\ backup = backup_before
       /\ pc \in {"create_workflow_files", "shell"}
       /\ RunEnded => /\ exit_code = "0"
                      /\ workflow.exists
                      /\ workflow.content = workflow_content
                      /\ Occurs(<<"      uses: Platane/snk@v3">>, workflow.content)

C4_EnabledWithoutSvgType ==
    /\ RunEnded /\ Loaded /\ exit_code = "0"
    /\ IntegrationEnabled(config) /\ config.outputs = <<Untyped>>
    /\ readme.exists /\ readme = readme_original /\ workflow.exists

\* C5: for a non-empty outputs list the output block of the rendered workflow
\* is one line per output, in input order: the path (output-<i>.svg where the
\* output has none) followed by "?" and the "&"-joined palette, color_snake
\* and color_dots entries that are set and non-empty, or by nothing.
C5_OutputBlock ==
    (pc = "returned" /\ Len(config.outputs) > 0)
    => OutputBlock(workflow_content) = ExpectedBlock(config.outputs)

C5_TwoOutputsWithQueries ==
    /\ pc = "returned" /\ Len(config.outputs) = 2
    /\ config.outputs[1].path = {"b-dark.svg"}
    /\ config.outputs[1].palette = {""}
    /\ config.outputs[1].color_snake = {}
    /\ config.outputs[1].color_dots = {"blue"}
    /\ config.outputs[2].path = {"a.svg"}
    /\ config.outputs[2].palette = {"github-dark"}
    /\ config.outputs[2].color_snake = {"red"}
    /\ config.outputs[2].color_dots = {"blue"}
    /\ OutputBlock(workflow_content) =
         <<"      ", "b-dark.svg", "?", "color_dots=", "blue", "\n",
           "      ", "a.svg", "?", "palette=", "github-dark", "&",
           "color_snake=", "red", "&", "color_dots=", "blue", "\n">>

\* C6: the rendered workflow has no schedule block when automation.enabled is
\* false and exactly one when it is true or absent, with the configured cron
\* string or "0 0 1,15 * *"; push and pull_request on main/master are there
\* in both cases.
C6_ScheduleTrigger ==
    pc = "returned"
    => /\ config.automation.enabled = {FALSE}
          => /\ Count(workflow_content, "  schedule:") = 0
             /\ Count(workflow_content, "    - cron: \"") = 0
       /\ config.automation.enabled # {FALSE}
          => /\ Count(workflow_content, "  schedule:") = 1
             /\ Count(workflow_content, "    - cron: \"") = 1
             /\ Occurs(<<"  schedule:", "\n", "    - cron: \"",
                         IF config.automation.schedule = {}
                         THEN "0 0 1,15 * *"
                         ELSE CHOOSE v \in config.automation.schedule : TRUE,
                         "\"", "\n">>, workflow_content)
       /\ Occurs(<<"on:", "\n", "  push:", "\n", Branches, "\n",
                   "  pull_request:", "\n", Branches, "\n">>, workflow_content)

C6_ScheduleByDefault ==
    /\ pc = "returned"
    /\ config.automation.enabled = {}
    /\ config.automation.schedule = {"0 6 * * *"}
    /\ Occurs(<<"    - cron: \"", "0 6 * * *", "\"">>, workflow_content)

\* C7 as stated: a position other than "top" and "bottom" leaves the same
\* README and the same backup as position "top" does for the same
\* configuration and the same README.
C7_OtherPositionSameAsTop ==
    (RunEnded /\ Loaded /\ ProducesMarkup(config) /\ OtherPosition(config)
        /\ readme_before.exists)
    => /\ backup = readme_before
       /\ readme = File(compose("top", generate_readme_content(config),
                                readme_before))

\* C7 amended: a position other than "top" and "bottom" leaves the same
\* backup as "top" and the README of "top" with one newline, not two,
\* between the markup and the existing text.
C7_OtherPositionOneNewline ==
    (RunEnded /\ Loaded /\ ProducesMarkup(config) /\ OtherPosition(config)
        /\ readme_before.exists)
    => LET markup == generate_readme_content(config)
           top == compose("top", markup, readme_before)
       IN /\ backup = readme_before
          /\ top[Len(markup) + 1] = "\n" /\ top[Len(markup) + 2] = "\n"
          /\ readme = File(SubSeq(top, 1, Len(markup) + 1)
                           \o SubSeq(top, Len(markup) + 3, Len(top)))

C7_MiddleOverExistingReadme ==
    /\ RunEnded /\ Loaded /\ ProducesMarkup(config) /\ exit_code = "0"
    /\ config.readme_integration.position = {"middle"}
    /\ readme_before.exists /\ Len(readme_before.content) = 2
    /\ readme.exists

\* C8 as stated: no commit step when automation.auto_commit is false, exactly
\* one when it is true or absent, with the configured or default message.
C8_CommitStepOnlyWhenAutoCommit ==
    pc = "returned"
    => /\ config.automation.auto_commit = {FALSE}
          => Count(workflow_content, "    - name: Commit changes") = 0
       /\ config.automation.auto_commit # {FALSE}
          => Count(workflow_content, "    - name: Commit changes") = 1

\* C8 amended: the rendered workflow always has exactly one commit step; its
\* "if:" condition is false when automation.auto_commit is false and true
\* when it is true or absent, and its commit message is the configured or
\* default template, ${DATE} left as written.
C8_CommitStepGuarded ==
    pc = "returned"
    => /\ Count(workflow_content, "    - name: Commit changes") = 1
       /\ Occurs(<<"    - name: Commit changes", "\n", "      if: ",
                   IF config.automation.auto_commit = {FALSE}
                   THEN "false" ELSE "true", "\n">>, workflow_content)
       /\ Occurs(<<"        git diff --staged --quiet || git commit -m \"",
                   IF config.automation.commit_message = {}
                   THEN "Update snake contributions on ${DATE}"
                   ELSE CHOOSE v \in config.automation.commit_message : TRUE,
                   "\"", "\n">>, workflow_content)

C8_AutoCommitOff ==
    /\ pc = "returned"
    /\ config.automation.auto_commit = {FALSE}
    /\ config.automation.commit_message = {"snake ${DATE}"}
    /\ Occurs(<<"      if: ", "false", "\n">>, workflow_content)

\* C9: with integration enabled, an output of type svg and no README before
\* the run, the run ends with exit code 0, the README exists and contains the
\* markup, and the backup is as it was.
C9_NoReadmeCreatesReadme ==
    (RunEnded /\ Loaded /\ ProducesMarkup(config) /\ ~readme_before.exists)
    => /\ exit_code = "0"
       /\ readme.exists
       /\ Occurs(generate_readme_content(config), readme.content)
       /\ backup = backup_before

\* C10: in every state the content the README had before the first run
\* occurs contiguously in the README or in the backup.
C10_OriginalNeverLost ==
    readme_original.exists
    => \/ readme.exists /\ Occurs(readme_original.content, readme.content)
       \/ backup.exists /\ Occurs(readme_original.content, backup.content)

====
